---- MODULE Spec2Model ----
(***************************************************************************)
(* The host-side receiver of the air-gap gatekeeper                        *)
(* (src/pc/receiver_test_harness.py) and its counterpart simulator         *)
(* (src/pc/serial_protocol.py), as a state machine over one serial link.   *)
(*                                                                         *)
(* Bytes are integers 0..255; a byte string is a sequence of bytes.  The   *)
(* link is a FIFO of bytes (rx, device to host) and a log of the writes    *)
(* of the host (tx).  Every ser.read / ser.readline of the receiver is one *)
(* step; between two steps the device may write.  A read that finds fewer  *)
(* bytes than it asked for may wait (no step) or time out (a step that     *)
(* returns what is there), as pyserial does with timeout=1.                *)
(***************************************************************************)
EXTENDS Integers, Sequences, FiniteSets, TLC

\* ------------------------------------------------------------ bounds
\* The device writes only while at most MaxLink bytes are in flight.
MaxLink == 2
\* The receiver's session buffer is capped at MaxBuf bytes.
MaxBuf == 16
\* At most MaxCaptures verdicts (and captures) in one run.
MaxCaptures == 2
\* The free device sends at most MaxFrames frames in one run.
MaxFrames == 2
\* Payloads of the round-trip specification have at most MaxPayload bytes.
MaxPayload == 3
\* The simulator's chunk size (4096 in the code) scaled down.
SimChunk == 2
\* A damaged burst has at most MaxBurst frames.
MaxBurst == 2
\* The retraining pipeline runs at most MaxRuns times.
MaxRuns == 3
\* --n-keep is at most MaxKeep.
MaxKeep == 2

\* ------------------------------------------------- program constants
START_MARK == 170
END_MARK == 85
NL == 10
\* len(payload) / chunk size of the simulator: 16 * 1024 / 4096.
SimChunks == 4
\* Length of a SHA-256 hex digest.
DigestLen == 64

L_EVENT == <<69, 86, 69, 78, 84, 58, 85, 83, 66, 95, 73, 78, 83, 69, 82, 84, 69, 68>>   \* "EVENT:USB_INSERTED"
L_CHUNK_START == <<67, 72, 85, 78, 75, 95, 83, 84, 65, 82, 84>>   \* "CHUNK_START"
L_CHUNK_END == <<67, 72, 85, 78, 75, 95, 69, 78, 68>>   \* "CHUNK_END"
L_HASH == <<72, 65, 83, 72, 58>>   \* "HASH:"
L_RELAY_CUT == <<65, 67, 84, 73, 79, 78, 58, 82, 69, 76, 65, 89, 95, 67, 85, 84>>   \* "ACTION:RELAY_CUT"
L_RELAY_ALLOW == <<65, 67, 84, 73, 79, 78, 58, 82, 69, 76, 65, 89, 95, 65, 76, 76, 79, 87>>   \* "ACTION:RELAY_ALLOW"
L_STATUS == <<83, 84, 65, 84, 85, 83, 58, 67, 79, 77, 80, 76, 69, 84, 69>>   \* "STATUS:COMPLETE"
L_ERROR == <<69, 82, 82, 79, 82>>   \* "ERROR"
\* Two lines a device may also send: one with the error token, one unknown.
L_ERRLINE == <<68, 73, 83, 75, 32, 69, 82, 82, 79, 82, 32, 55>>   \* "DISK ERROR 7"
L_UNKNOWN == <<80, 73, 78, 71>>   \* "PING"

CMD_ALLOW == "ALLOW\n"
CMD_CUT == "CUT\n"

\* ------------------------------------------------------ byte strings
Take(s, n) == SubSeq(s, 1, n)
Drop(s, n) == SubSeq(s, n + 1, Len(s))

RECURSIVE Flatten(_)
Flatten(ss) == IF ss = <<>> THEN <<>> ELSE Head(ss) \o Flatten(Tail(ss))

\* Python's None and a bytes/str value: an optional.
None == [ok |-> FALSE, v |-> <<>>]
Some(x) == [ok |-> TRUE, v |-> x]
\* Python truth of an optional bytes value: None and b'' are falsy.
Truthy(o) == o.ok /\ o.v # <<>>

\* s.startswith(p)
StartsWith(s, p) == Len(s) >= Len(p) /\ SubSeq(s, 1, Len(p)) = p

\* s.find(p, from): the first index >= from where p occurs in s, 0 if none.
Find(s, p, from) ==
    LET hits == {i \in from..(Len(s) - Len(p) + 1) :
                    \A k \in 1..Len(p) : s[i + k - 1] = p[k]}
    IN IF hits = {} THEN 0 ELSE CHOOSE i \in hits : \A j \in hits : i <= j

\* p in s
Contains(s, p) == Find(s, p, 1) # 0

\* bytes.decode(errors='ignore') on the bytes this model puts on the link:
\* ASCII bytes decode to themselves, and a byte >= 0x80 that starts no valid
\* UTF-8 sequence (0xAA is a lone continuation byte) is dropped.
IsAscii(b) == b < 128
Decode(bs) == SelectSeq(bs, IsAscii)

\* str.strip(): leading and trailing whitespace removed.
IsSpace(c) == c \in {9, 10, 11, 12, 13, 28, 29, 30, 31, 32}
RECURSIVE LStrip(_)
LStrip(s) == IF s # <<>> /\ IsSpace(Head(s)) THEN LStrip(Tail(s)) ELSE s
RECURSIVE RStrip(_)
RStrip(s) == IF s # <<>> /\ IsSpace(s[Len(s)]) THEN RStrip(Take(s, Len(s) - 1)) ELSE s
Strip(s) == RStrip(LStrip(s))

\* str.lower() / str.upper() on hex digits.
LowerChar(c) == IF c >= 65 /\ c <= 90 THEN c + 32 ELSE c
UpperChar(c) == IF c >= 97 /\ c <= 122 THEN c - 32 ELSE c
Lower(s) == [i \in 1..Len(s) |-> LowerChar(s[i])]
Upper(s) == [i \in 1..Len(s) |-> UpperChar(s[i])]

\* ------------------------------------------------------------ SHA-256
\* hashlib.sha256(B).hexdigest(): DigestLen lowercase hex characters, a
\* deterministic function of B.  The digest is modelled collision-free on
\* the buffers of the model (ideal hash): the hex of len(B) and of each
\* byte of B, zero-padded and cut to DigestLen characters.
HexDigit(d) == IF d < 10 THEN 48 + d ELSE 87 + d
HexByte(b) == <<HexDigit((b \div 16) % 16), HexDigit(b % 16)>>
RECURSIVE HexBytes(_)
HexBytes(bs) == IF bs = <<>> THEN <<>> ELSE HexByte(Head(bs)) \o HexBytes(Tail(bs))
Zeros(n) == [i \in 1..n |-> 48]
PadHex(h) == IF Len(h) >= DigestLen THEN Take(h, DigestLen) ELSE h \o Zeros(DigestLen - Len(h))
Sha256Hex(B) == PadHex(HexByte(Len(B) % 256) \o HexBytes(B))

\* One hex character of a digest flipped (the first one).
FlipHex(h) == [h EXCEPT ![1] = IF h[1] = 48 THEN 49 ELSE 48]

\* ------------------------------------------------------------ pyserial
\* ser.read(n) on link content buf: n bytes when they are there, else (on
\* timeout) the bytes that are there.
SerRead(buf, n) ==
    IF Len(buf) >= n
    THEN [got |-> Take(buf, n), rest |-> Drop(buf, n), short |-> FALSE]
    ELSE [got |-> buf, rest |-> <<>>, short |-> TRUE]

\* ser.readline(): through the first newline, else (on timeout) what is there.
SerReadline(buf) ==
    LET nl == Find(buf, <<NL>>, 1)
    IN IF nl # 0
       THEN [got |-> Take(buf, nl), rest |-> Drop(buf, nl), short |-> FALSE]
       ELSE [got |-> buf, rest |-> <<>>, short |-> TRUE]

\* The length packed little-endian ("<I").
PackLE(n) == <<n % 256, (n \div 256) % 256, (n \div 65536) % 256, (n \div 16777216) % 256>>

\* struct.pack(">I", n): 4 bytes, big-endian.
PackBE(n) == <<(n \div 16777216) % 256, (n \div 65536) % 256, (n \div 256) % 256, n % 256>>

\* struct.unpack(">I", hdr)[0], an unsigned 32-bit value, kept as two 16-bit
\* halves: the value is hi * 65536 + lo.
UnpackBE(h) == [hi |-> h[1] * 256 + h[2], lo |-> h[3] * 256 + h[4]]

\* ser.read(length) for a 32-bit length: the link never holds 65536 bytes.
SerReadU32(buf, length) ==
    IF length.hi = 0 THEN SerRead(buf, length.lo)
    ELSE [got |-> buf, rest |-> <<>>, short |-> TRUE]

\* ------------------------------------------------------------- state
VARIABLES
    rx,                     \* bytes in flight, device to host
    tx,                     \* the commands the host has written, in order
    pc,                     \* receiver: "poll" (line 46) or a read of read_frame
    hdr,                    \* read_frame: the 4 header bytes
    data,                   \* read_frame: the payload read
    frame,                  \* main: the last value read_frame returned
    ciphertext,             \* main: the session buffer
    file_counter,           \* main: the capture counter
    current_hash_expected,  \* main: the announced hash
    files,                  \* the captures: index -> content of received_<index>.bin
    script,                 \* a scripted device: the writes it has still to do
    payload,                \* a scripted device's payload
    mode,                   \* which device drives the link
    nframes,                \* frames the free device has sent
    sessCmds,               \* commands written since the last insertion event was
                            \* handled; -1 before the first one
    phase,                  \* the lifecycle state the receiver would be in
    afterVerdict,           \* a verdict was written and no frame appended since
    evtLeft,                \* bytes of rx up to the end of a tracked insertion-event line
    earlyTimeout,           \* a read timed out while the script had writes left
    sent,                   \* a scripted device: the writes it has done, in order
    noFrame,                \* "marker" or "length" in the state that a call of
                            \* read_frame leaves when it gives up at that read,
                            \* "" in every other state
    effects,                \* what the branch of the line just taken has done, in
                            \* the order of its statements; <<>> in every state
                            \* that another step leaves
    fs,                     \* retrain.py: the files and directories it works on
    rpc,                    \* retrain.py: the step of main() that comes next
    args,                   \* retrain.py: the command line of the run (dry_run, n_keep)
    now,                    \* retrain.py: main's now (line 525)
    features_sha256,        \* retrain.py: main's features_sha256
    status,                 \* retrain.py: the status printed by the last run that ended
    clock                   \* seconds elapsed on the wall clock, one per run

vars == <<rx, tx, pc, hdr, data, frame, ciphertext, file_counter,
          current_hash_expected, files, script, payload, mode, nframes,
          sessCmds, phase, afterVerdict, evtLeft, earlyTimeout, sent, noFrame,
          effects, fs, rpc, args, now, features_sha256, status, clock>>

\* The state of the retraining pipeline (src/ml/retrain.py).
mlVars == <<fs, rpc, args, now, features_sha256, status, clock>>
\* The state of the serial link, the receiver and the device.
linkVars == <<rx, tx, pc, hdr, data, frame, ciphertext, file_counter,
              current_hash_expected, files, script, payload, mode, nframes,
              sessCmds, phase, afterVerdict, evtLeft, earlyTimeout, sent, noFrame,
              effects>>

hostVars == <<tx, pc, hdr, data, frame, ciphertext, file_counter,
              current_hash_expected, files>>
monitorVars == <<sessCmds, phase, afterVerdict>>

InLoop == pc \in {"rf_marker", "rf_hdr", "rf_data", "rf_tail"}

\* datetime.now(timezone.utc) when the wall clock shows k seconds: the date is
\* fixed and the clock stays within one minute.
DateTime(k) == [Y |-> 2024, m |-> 1, d |-> 1, H |-> 0, M |-> 0, S |-> k]

\* A checkout in which retrain.py has not run: no features file, no versioned
\* model, metrics image or log, no alias, no manifest, no output directory.
NoFiles ==
    [features |-> 0, models |-> <<>>, metrics |-> {}, logs |-> {},
     alias |-> <<>>, manifest |-> None, dirs |-> {}]

MlInit ==
    /\ fs = NoFiles
    /\ rpc = "idle"
    /\ args = [dry_run |-> FALSE, n_keep |-> 0]
    /\ now = DateTime(0)
    /\ features_sha256 = <<>>
    /\ status = ""
    /\ clock = 0

\* The state of main() at line 45, before the first readline.
HostInit ==
    /\ rx = <<>>
    /\ tx = <<>>
    /\ pc = "poll"
    /\ hdr = <<>>
    /\ data = <<>>
    /\ frame = None
    /\ ciphertext = <<>>
    /\ file_counter = 0
    /\ current_hash_expected = None
    /\ files = <<>>
    /\ nframes = 0
    /\ sessCmds = -1
    /\ phase = "IDLE"
    /\ afterVerdict = FALSE
    /\ evtLeft = 0
    /\ earlyTimeout = FALSE
    /\ sent = <<>>
    /\ noFrame = ""
    /\ effects = <<>>
    /\ MlInit


\* ----------------------------------------------------------- receiver
\* The branch of main's if/elif chain (lines 47-96) that a stripped line takes.
Branch(line) ==
    IF line = <<>> THEN "empty"
    ELSE IF StartsWith(line, L_EVENT) THEN "usb"
    ELSE IF line = L_CHUNK_START THEN "chunk_start"
    ELSE IF StartsWith(line, L_HASH) THEN "hash"
    ELSE IF StartsWith(line, L_RELAY_CUT) THEN "relay_cut"
    ELSE IF StartsWith(line, L_RELAY_ALLOW) THEN "relay_allow"
    ELSE IF StartsWith(line, L_STATUS) THEN "status"
    ELSE IF Contains(line, L_ERROR) THEN "error"
    ELSE "other"

\* line.split("HASH:")[1].strip() for a line that starts with "HASH:": the text
\* between the leading "HASH:" and the next "HASH:" (or the end), stripped.
HashField(line) ==
    LET from == Len(L_HASH) + 1
        nxt == Find(line, L_HASH, from)
        last == IF nxt = 0 THEN Len(line) ELSE nxt - 1
    IN Strip(SubSeq(line, from, last))

\* The line that the next readline returns, decoded and stripped (line 46).
NextLine == Strip(Decode(SerReadline(rx).got))

\* OnUsbInserted without line 53: the expected hash is kept.
OnUsbInserted_KeepHash ==
    /\ ciphertext' = <<>>
    /\ UNCHANGED <<tx, pc, hdr, data, frame, file_counter, files,
                   current_hash_expected>>

\* Lines 50-53.
OnUsbInserted ==
    /\ ciphertext' = <<>>
    /\ current_hash_expected' = None
    /\ UNCHANGED <<tx, pc, hdr, data, frame, file_counter, files>>

\* OnChunkStart starting a new buffer (ciphertext = b'') with each burst.
OnChunkStart_NewBuffer ==
    /\ pc' = "rf_marker"
    /\ ciphertext' = <<>>
    /\ UNCHANGED <<tx, hdr, data, frame, file_counter,
                   current_hash_expected, files>>

\* Lines 55-57: enter the streaming loop.
OnChunkStart ==
    /\ pc' = "rf_marker"
    /\ UNCHANGED <<tx, hdr, data, frame, ciphertext, file_counter,
                   current_hash_expected, files>>

\* Lines 73-78: the command written for digest h and announced value e.
Verdict(h, e) == IF h # e THEN CMD_CUT ELSE CMD_ALLOW

\* Lines 73-84: what the hash branch does, in the order of its statements: the
\* command written (line 75 or 78), the counter advanced (81), the capture
\* written (82-83), the buffer cleared (84).
HashEffects == <<"command", "counter", "capture", "clear">>

\* OnHash with the capture written only on ALLOW.
OnHash_CaptureOnAllow(line) ==
    /\ file_counter < MaxCaptures
    /\ current_hash_expected' = Some(HashField(line))
    /\ tx' = Append(tx, Verdict(Sha256Hex(ciphertext), HashField(line)))
    /\ IF Sha256Hex(ciphertext) # HashField(line)
       THEN UNCHANGED <<file_counter, files>>
       ELSE /\ file_counter' = file_counter + 1
            /\ files' = ((file_counter + 1) :> ciphertext) @@ files
    /\ ciphertext' = <<>>
    /\ UNCHANGED <<pc, hdr, data, frame>>

\* OnHash without line 84: the buffer is kept after the verdict.
OnHash_KeepBuffer(line) ==
    /\ file_counter < MaxCaptures
    /\ current_hash_expected' = Some(HashField(line))
    /\ tx' = Append(tx, Verdict(Sha256Hex(ciphertext), HashField(line)))
    /\ file_counter' = file_counter + 1
    /\ files' = ((file_counter + 1) :> ciphertext) @@ files
    /\ UNCHANGED <<pc, hdr, data, frame, ciphertext>>

\* OnHash without line 80: the counter is not advanced.
OnHash_NoIncrement(line) ==
    /\ Len(tx) < MaxCaptures
    /\ current_hash_expected' = Some(HashField(line))
    /\ tx' = Append(tx, Verdict(Sha256Hex(ciphertext), HashField(line)))
    /\ file_counter' = 1
    /\ files' = (1 :> ciphertext) @@ files
    /\ ciphertext' = <<>>
    /\ UNCHANGED <<pc, hdr, data, frame>>

\* OnHash with the buffer cleared before the capture is written.
OnHash_ClearFirst(line) ==
    /\ file_counter < MaxCaptures
    /\ current_hash_expected' = Some(HashField(line))
    /\ tx' = Append(tx, Verdict(Sha256Hex(ciphertext), HashField(line)))
    /\ ciphertext' = <<>>
    /\ file_counter' = file_counter + 1
    /\ files' = ((file_counter + 1) :> <<>>) @@ files
    /\ UNCHANGED <<pc, hdr, data, frame>>

\* Lines 65-84.
OnHash(line) ==
    /\ file_counter < MaxCaptures
    /\ current_hash_expected' = Some(HashField(line))
    /\ tx' = Append(tx, Verdict(Sha256Hex(ciphertext), HashField(line)))
    /\ file_counter' = file_counter + 1
    /\ files' = ((file_counter + 1) :> ciphertext) @@ files
    /\ ciphertext' = <<>>
    /\ UNCHANGED <<pc, hdr, data, frame>>

\* OnLogOnly giving up the bytes received so far.
OnLogOnly_ClearBuffer ==
    /\ ciphertext' = <<>>
    /\ UNCHANGED <<tx, pc, hdr, data, frame, file_counter,
                   current_hash_expected, files>>

\* Lines 86-96 and the fall-through of the chain: logged only.
OnLogOnly == UNCHANGED hostVars

\* What the lifecycle of the design (IDLE, DEVICE_PRESENT, STREAMING,
\* VERIFYING and back to IDLE) makes of the line taken.
PhaseAfter(br) ==
    CASE br = "usb" -> "DEVICE_PRESENT"
      [] br = "chunk_start" -> IF phase = "IDLE" THEN "IDLE" ELSE "STREAMING"
      [] br = "hash" -> IF phase = "STREAMING" THEN "IDLE" ELSE phase
      [] OTHER -> phase

\* Bytes taken off the link by a step.
Taken == Len(rx) - Len(rx')
TrackLink(short) ==
    /\ evtLeft' = IF evtLeft > Taken THEN evtLeft - Taken ELSE 0
    /\ earlyTimeout' = (earlyTimeout \/ (short /\ script # <<>>))

\* One iteration of main's loop at line 46: readline, then the chain.
PollLine ==
    /\ pc = "poll"
    /\ \E rl \in {SerReadline(rx)} : \E line \in {Strip(Decode(rl.got))} :
       \E br \in {Branch(line)} :
          /\ rx' = rl.rest
          /\ CASE br = "usb" -> OnUsbInserted
               [] br = "chunk_start" -> OnChunkStart
               [] br = "hash" -> OnHash(line)
               [] OTHER -> OnLogOnly
          /\ sessCmds' = IF br = "usb" THEN 0
                          ELSE IF sessCmds < 0 THEN sessCmds
                          ELSE sessCmds + (Len(tx') - Len(tx))
          /\ phase' = PhaseAfter(br)
          /\ afterVerdict' = (afterVerdict \/ Len(tx') > Len(tx))
          /\ TrackLink(rl.short)
          /\ effects' = IF br = "hash" THEN HashEffects ELSE <<>>
    /\ noFrame' = ""
    /\ UNCHANGED <<sent, script, payload, mode, nframes, mlVars>>

\* LoopStep with the frame put in front of the buffer (frame + ciphertext).
LoopStep_Prepend(ret) ==
    /\ frame' = ret
    /\ hdr' = <<>>
    /\ data' = <<>>
    /\ IF Truthy(ret)
       THEN /\ Len(ciphertext) + Len(ret.v) <= MaxBuf
            /\ ciphertext' = ret.v \o ciphertext
            /\ pc' = "rf_marker"
            /\ afterVerdict' = FALSE
       ELSE /\ pc' = "poll"
            /\ UNCHANGED <<ciphertext, afterVerdict>>
    /\ UNCHANGED <<tx, file_counter, current_hash_expected, files>>

\* Lines 58-63: what the streaming loop does with read_frame's return value.
LoopStep(ret) ==
    /\ frame' = ret
    /\ hdr' = <<>>
    /\ data' = <<>>
    /\ IF Truthy(ret)
       THEN /\ Len(ciphertext) + Len(ret.v) <= MaxBuf
            /\ ciphertext' = ciphertext \o ret.v
            /\ pc' = "rf_marker"
            /\ afterVerdict' = FALSE
       ELSE /\ pc' = "poll"
            /\ UNCHANGED <<ciphertext, afterVerdict>>
    /\ UNCHANGED <<tx, file_counter, current_hash_expected, files>>

\* MarkerOk without the comparison with START_MARK: any byte starts a frame.
MarkerOk_AnyByte(b) == b # <<>>

\* read_frame, lines 18-20: the start marker.
MarkerOk(b) == b # <<>> /\ b[1] = START_MARK

RfMarker ==
    /\ pc = "rf_marker"
    /\ \E r \in {SerRead(rx, 1)} :
          /\ rx' = r.rest
          /\ IF MarkerOk(r.got)
             THEN /\ pc' = "rf_hdr"
                  /\ UNCHANGED <<tx, hdr, data, frame, ciphertext, file_counter,
                                 current_hash_expected, files, afterVerdict>>
             ELSE LoopStep(None)
          /\ noFrame' = IF MarkerOk(r.got) THEN "" ELSE "marker"
          /\ effects' = <<>>
          /\ TrackLink(r.short)
    /\ UNCHANGED <<sent, script, payload, mode, nframes, sessCmds, phase, mlVars>>

\* read_frame, lines 21-24: the length.
RfHdr ==
    /\ pc = "rf_hdr"
    /\ \E r \in {SerRead(rx, 4)} :
          /\ rx' = r.rest
          /\ IF Len(r.got) # 4
             THEN LoopStep(None)
             ELSE /\ hdr' = r.got
                  /\ pc' = "rf_data"
                  /\ UNCHANGED <<tx, data, frame, ciphertext, file_counter,
                                 current_hash_expected, files, afterVerdict>>
          /\ noFrame' = IF Len(r.got) # 4 THEN "length" ELSE ""
          /\ effects' = <<>>
          /\ TrackLink(r.short)
    /\ UNCHANGED <<sent, script, payload, mode, nframes, sessCmds, phase, mlVars>>

\* read_frame, line 25: the payload.
RfData ==
    /\ pc = "rf_data"
    /\ \E r \in {SerReadU32(rx, UnpackBE(hdr))} :
          /\ rx' = r.rest
          /\ data' = r.got
          /\ pc' = "rf_tail"
          /\ TrackLink(r.short)
    /\ noFrame' = ""
    /\ effects' = <<>>
    /\ UNCHANGED <<tx, hdr, frame, ciphertext, file_counter, current_hash_expected,
                   files, sent, script, payload, mode, nframes, monitorVars, mlVars>>

\* read_frame returning None unless the tail byte is the end marker.
ReadFrameResult_StrictTail(d, tail) == IF tail = <<END_MARK>> THEN Some(d) ELSE None

\* read_frame returning None when the tail read returns no byte.
ReadFrameResult_NeedsTail(d, tail) == IF tail = <<>> THEN None ELSE Some(d)

\* read_frame, lines 26-29: the tail byte is read and only warned about; the
\* payload read is returned.
ReadFrameResult(d, tail) == Some(d)

RfTail ==
    /\ pc = "rf_tail"
    /\ \E r \in {SerRead(rx, 1)} :
          /\ rx' = r.rest
          /\ LoopStep(ReadFrameResult(data, r.got))
          /\ TrackLink(r.short)
    /\ noFrame' = ""
    /\ effects' = <<>>
    /\ UNCHANGED <<sent, script, payload, mode, nframes, sessCmds, phase, mlVars>>

Receiver == PollLine \/ RfMarker \/ RfHdr \/ RfData \/ RfTail

\* ------------------------------------------------------------- device
\* send_frame (serial_protocol.py, lines 19-23): the four writes.
SendFrameWrites(d) == <<(<<START_MARK>>), PackBE(Len(d)), d, (<<END_MARK>>)>>
SendFrame(d) == Flatten(SendFrameWrites(d))

\* A control line as written: the text and a newline.
LineBytes(l) == l \o <<NL>>

\* The frames a free device may put on the link: well-formed, with a wrong
\* tail byte, without a tail byte, or declaring one byte more than it carries.
FrameKinds == {"ok", "badtail", "notail", "short"}
FrameBytes(kind, d) ==
    CASE kind = "ok" -> SendFrame(d)
      [] kind = "badtail" -> <<START_MARK>> \o PackBE(Len(d)) \o d \o <<0>>
      [] kind = "notail" -> <<START_MARK>> \o PackBE(Len(d)) \o d
      [] kind = "short" -> <<START_MARK>> \o PackBE(Len(d) + 1) \o d

FramePayloads == {<<>>, <<START_MARK>>}

\* Well-formed frames with each payload, and one malformed frame of each kind.
DevFrames ==
    {FrameBytes("ok", d) : d \in FramePayloads}
        \cup {FrameBytes(kind, <<START_MARK>>) : kind \in FrameKinds \ {"ok"}}

\* Hash announcements for a buffer p: its digest, and its digest in upper case.
\* The free device announces them for the buffer the receiver holds.
HashLines(p) ==
    LET h == Sha256Hex(p) IN {L_HASH \o h, L_HASH \o Upper(h)}

DevLines ==
    {L_EVENT, L_CHUNK_START, L_CHUNK_END} \cup HashLines(ciphertext)

DevSendLine ==
    /\ mode = "free"
    /\ Len(rx) <= MaxLink
    /\ \E l \in DevLines :
          /\ rx' = rx \o LineBytes(l)
          /\ evtLeft' = IF l = L_EVENT /\ InLoop /\ ciphertext # <<>> /\ evtLeft = 0
                        THEN Len(rx') ELSE evtLeft
    /\ noFrame' = ""
    /\ effects' = <<>>
    /\ UNCHANGED <<hostVars, sent, script, payload, mode, nframes, monitorVars, earlyTimeout, mlVars>>

DevSendFrame ==
    /\ mode = "free"
    /\ Len(rx) <= MaxLink
    /\ nframes < MaxFrames
    /\ \E f \in DevFrames : rx' = rx \o f
    /\ nframes' = nframes + 1
    /\ noFrame' = ""
    /\ effects' = <<>>
    /\ UNCHANGED <<hostVars, sent, script, payload, mode, monitorVars, evtLeft, earlyTimeout, mlVars>>

\* A scripted device does its next write.
ScriptSend ==
    /\ script # <<>>
    /\ rx' = rx \o Head(script)
    /\ script' = Tail(script)
    /\ sent' = Append(sent, Head(script))
    /\ noFrame' = ""
    /\ effects' = <<>>
    /\ UNCHANGED <<hostVars, payload, mode, nframes, monitorVars, evtLeft, earlyTimeout, mlVars>>

\* ------------------------------------------------------ specifications
\* A free device: any line and any frame, in any order.
Init ==
    /\ HostInit
    /\ script = <<>>
    /\ payload = <<>>
    /\ mode = "free"

Next == DevSendLine \/ DevSendFrame \/ PollLine \/ RfMarker \/ RfHdr \/ RfData \/ RfTail

Spec == Init /\ [][Next]_vars


\* Scripted devices: the receiver against a fixed sequence of writes.
ScriptNext == ScriptSend \/ PollLine \/ RfMarker \/ RfHdr \/ RfData \/ RfTail

\* Scenarios A and B: insertion event, chunk-begin, one frame of 16 zero
\* bytes, and the hash announcement (B: with one hex character flipped).
ScenarioPayload == [i \in 1..16 |-> 0]
ScenarioHash(m) ==
    IF m = "A" THEN Sha256Hex(ScenarioPayload) ELSE FlipHex(Sha256Hex(ScenarioPayload))
ScenarioWrites(m) ==
    <<LineBytes(L_EVENT), LineBytes(L_CHUNK_START)>>
        \o SendFrameWrites(ScenarioPayload)
        \o <<LineBytes(L_HASH \o ScenarioHash(m))>>

ScenarioInit ==
    /\ HostInit
    /\ mode \in {"A", "B"}
    /\ payload = ScenarioPayload
    /\ script = ScenarioWrites(mode)

ScenarioSpec == ScenarioInit /\ [][ScriptNext]_vars

\* Round trip: chunk-begin, send_frame(payload), chunk-end.
RECURSIVE SeqsUpTo(_, _)
SeqsUpTo(S, n) ==
    IF n = 0 THEN {<<>>}
    ELSE LET shorter == SeqsUpTo(S, n - 1)
         IN shorter \cup {Append(q, b) : q \in shorter, b \in S}

RoundTripBytes == {0, NL, END_MARK, START_MARK}
RoundTripWrites(d) ==
    <<LineBytes(L_CHUNK_START)>> \o SendFrameWrites(d) \o <<LineBytes(L_CHUNK_END)>>

RoundTripInit ==
    /\ HostInit
    /\ mode = "rt"
    /\ payload \in SeqsUpTo(RoundTripBytes, MaxPayload)
    /\ script = RoundTripWrites(payload)

RoundTripSpec == RoundTripInit /\ [][ScriptNext]_vars

\* One burst from a device whose frames may be damaged: the chunk-begin line,
\* one to MaxBurst frames, each in one write, the chunk-end line and the hash
\* of the payloads of its well-formed and wrong-tail frames.  A frame is well
\* formed ("ok"), has a wrong tail byte ("badtail"), no tail byte ("notail"),
\* stops inside the length ("shorthdr") or starts with a wrong marker
\* ("badmarker").
BurstKinds == {"ok", "badtail", "notail", "shorthdr", "badmarker"}
BurstPayloads == {<<>>, <<1>>}
BurstFrame(f) ==
    CASE f.kind = "ok" -> SendFrame(f.d)
      [] f.kind = "badtail" -> <<START_MARK>> \o PackBE(Len(f.d)) \o f.d \o <<0>>
      [] f.kind = "notail" -> <<START_MARK>> \o PackBE(Len(f.d)) \o f.d
      [] f.kind = "shorthdr" -> <<START_MARK, 0, 0>>
      [] f.kind = "badmarker" -> <<0>> \o PackBE(Len(f.d)) \o f.d \o <<END_MARK>>
BurstFrames ==
    [kind : {"ok", "badtail", "notail"}, d : BurstPayloads]
        \cup [kind : {"shorthdr", "badmarker"}, d : {<<1>>}]
Bursts == UNION {[1..n -> BurstFrames] : n \in 1..MaxBurst}

RECURSIVE BurstPayload(_)
BurstPayload(fr) ==
    IF fr = <<>> THEN <<>>
    ELSE (IF Head(fr).kind \in {"ok", "badtail"} THEN Head(fr).d ELSE <<>>)
             \o BurstPayload(Tail(fr))

BurstWrites(fr) ==
    <<LineBytes(L_CHUNK_START)>>
        \o [i \in 1..Len(fr) |-> BurstFrame(fr[i])]
        \o <<LineBytes(L_CHUNK_END), LineBytes(L_HASH \o Sha256Hex(BurstPayload(fr)))>>

BurstInit ==
    /\ HostInit
    /\ mode = "burst"
    /\ \E fr \in Bursts :
          /\ payload = BurstPayload(fr)
          /\ script = BurstWrites(fr)

BurstSpec == BurstInit /\ [][ScriptNext]_vars

\* One session in two bursts: the insertion event, then twice the chunk-begin
\* line, one to MaxBurst well-formed frames, each in one write, and the
\* chunk-end line, then the hash of all the payloads in the order sent.
SessionPayloads == {<<1>>, <<2, 3>>}
SessionBursts == UNION {[1..n -> SessionPayloads] : n \in 1..MaxBurst}
SessionBurst(ds) ==
    <<LineBytes(L_CHUNK_START)>>
        \o [i \in 1..Len(ds) |-> SendFrame(ds[i])]
        \o <<LineBytes(L_CHUNK_END)>>
SessionWrites(ds1, ds2) ==
    <<LineBytes(L_EVENT)>> \o SessionBurst(ds1) \o SessionBurst(ds2)
        \o <<LineBytes(L_HASH \o Sha256Hex(Flatten(ds1 \o ds2)))>>

SessionInit ==
    /\ HostInit
    /\ mode = "session"
    /\ \E ds1 \in SessionBursts, ds2 \in SessionBursts :
          /\ payload = Flatten(ds1 \o ds2)
          /\ script = SessionWrites(ds1, ds2)

SessionSpec == SessionInit /\ [][ScriptNext]_vars

\* One control line in every state of the receiver: up to MaxContext messages
\* (an insertion event, a burst of one frame, or a hash announcement), then
\* the line.  The lines are those the branches of lines 86-96 log, the
\* chunk-end line, lines no branch matches, and lines that contain "ERROR"
\* alone or after a prefix of an earlier branch.
MaxContext == 3
L_RELAY_CUT_OK == L_RELAY_CUT \o <<32, 79, 75>>   \* "ACTION:RELAY_CUT OK"
L_CHUNK_START_2 == L_CHUNK_START \o <<32, 50>>   \* "CHUNK_START 2"
L_HASH_ERROR == L_HASH \o L_ERROR   \* "HASH:ERROR"
L_EVENT_ERROR == L_EVENT \o <<32>> \o L_ERROR   \* "EVENT:USB_INSERTED ERROR"
L_RELAY_ERROR == L_RELAY_ALLOW \o <<32>> \o L_ERROR   \* "ACTION:RELAY_ALLOW ERROR"
ControlLines ==
    {L_RELAY_CUT, L_RELAY_CUT_OK, L_RELAY_ALLOW, L_STATUS, L_CHUNK_END,
     L_UNKNOWN, L_CHUNK_START_2,
     L_ERROR, L_ERRLINE, L_RELAY_ERROR, L_HASH_ERROR, L_EVENT_ERROR}
ContextWrites(m) ==
    CASE m = "event" -> <<LineBytes(L_EVENT)>>
      [] m = "burst" -> <<LineBytes(L_CHUNK_START), SendFrame(<<1>>), LineBytes(L_CHUNK_END)>>
      [] m = "hash" -> <<LineBytes(L_HASH \o Sha256Hex(<<1>>))>>
Contexts == SeqsUpTo({"event", "burst", "hash"}, MaxContext)
LineWrites(c, l) ==
    Flatten([i \in 1..Len(c) |-> ContextWrites(c[i])]) \o <<LineBytes(l)>>

LineInit ==
    /\ HostInit
    /\ mode = "line"
    /\ payload = <<>>
    /\ \E c \in Contexts, l \in ControlLines : script = LineWrites(c, l)

LineSpec == LineInit /\ [][ScriptNext]_vars

\* The simulator (serial_protocol.py, main): lines 45-48, the frames of
\* payload p from offset i on, in chunks of SimChunk bytes.
\* SimFrames with each chunk one byte short (payload[i:i+4096-1]).
RECURSIVE SimFrames_ShortChunk(_, _)
SimFrames_ShortChunk(p, i) ==
    IF i >= Len(p) THEN <<>>
    ELSE LET j == IF i + SimChunk <= Len(p) THEN i + SimChunk ELSE Len(p)
         IN SendFrameWrites(SubSeq(p, i + 1, j - 1)) \o SimFrames_ShortChunk(p, j)

RECURSIVE SimFrames(_, _)
SimFrames(p, i) ==
    IF i >= Len(p) THEN <<>>
    ELSE LET j == IF i + SimChunk <= Len(p) THEN i + SimChunk ELSE Len(p)
         IN SendFrameWrites(SubSeq(p, i + 1, j)) \o SimFrames(p, j)

\* SimWrites with the hash line written before the chunk-end line.
SimWrites_HashFirst(p) ==
    <<LineBytes(L_EVENT), LineBytes(L_CHUNK_START)>>
        \o SimFrames(p, 0)
        \o <<LineBytes(L_HASH \o Sha256Hex(p)), LineBytes(L_CHUNK_END), LineBytes(L_STATUS)>>

\* Lines 37-53: every write of the simulator, in order.
SimWrites(p) ==
    <<LineBytes(L_EVENT), LineBytes(L_CHUNK_START)>>
        \o SimFrames(p, 0)
        \o <<LineBytes(L_CHUNK_END), LineBytes(L_HASH \o Sha256Hex(p)), LineBytes(L_STATUS)>>

\* Line 36: os.urandom(16 * 1024), here SimChunks * SimChunk bytes in three
\* patterns: all bytes different, all the start marker, newline and end marker
\* alternating.
SimLen == SimChunks * SimChunk
SimPayloads ==
    {[i \in 1..SimLen |-> i],
     [i \in 1..SimLen |-> START_MARK],
     [i \in 1..SimLen |-> IF i % 2 = 1 THEN NL ELSE END_MARK]}

SimInit ==
    /\ HostInit
    /\ mode = "sim"
    /\ payload \in SimPayloads
    /\ script = SimWrites(payload)

\* Both programs keep running: the simulator does its next write, and a read
\* of the receiver returns (with its bytes, or at the timeout).
SimSpec ==
    SimInit /\ [][ScriptNext]_vars /\ WF_vars(ScriptSend) /\ WF_vars(Receiver)


\* ---------------------------------------------------------- retrain.py
\* File names and fixed strings of src/ml/retrain.py, as character codes.
P_MODEL == <<109, 111, 100, 101, 108, 95, 114, 102, 95>>   \* "model_rf_"
X_PKL == <<46, 112, 107, 108>>   \* ".pkl"
P_METRICS == <<109, 101, 116, 114, 105, 99, 115, 95>>   \* "metrics_"
X_PNG == <<46, 112, 110, 103>>   \* ".png"
P_RETRAIN == <<114, 101, 116, 114, 97, 105, 110, 95>>   \* "retrain_"
X_LOG == <<46, 108, 111, 103>>   \* ".log"
DRY_RUN_SHA == <<100, 114, 121, 45, 114, 117, 110, 45, 115, 104, 97, 50, 53, 54>>   \* "dry-run-sha256"

\* Two and four decimal digits of n.
D2(n) == <<48 + ((n \div 10) % 10), 48 + (n % 10)>>
D4(n) == D2(n \div 100) \o D2(n % 100)

\* now.strftime("%Y-%m-%dT%H:%M:%SZ") (line 526).
StrftimeIso(t) ==
    D4(t.Y) \o <<45>> \o D2(t.m) \o <<45>> \o D2(t.d) \o <<84>>
        \o D2(t.H) \o <<58>> \o D2(t.M) \o <<58>> \o D2(t.S) \o <<90>>

\* now.strftime("%Y%m%d_%H%M%S") (line 527).
StrftimeFs(t) ==
    D4(t.Y) \o D2(t.m) \o D2(t.d) \o <<95>> \o D2(t.H) \o D2(t.M) \o D2(t.S)

\* Lines 213-215: the names of a run's model, metrics image and log.
ModelFilename(timestamp) == P_MODEL \o timestamp \o X_PKL
MetricsFilename(timestamp) == P_METRICS \o timestamp \o X_PNG
LogFilename(timestamp) == P_RETRAIN \o timestamp \o X_LOG

\* Path.stem: the name without its last suffix.
RECURSIVE LastDot(_, _)
LastDot(s, i) == IF i = 0 THEN 0 ELSE IF s[i] = 46 THEN i ELSE LastDot(s, i - 1)
Stem(name) ==
    LET i == LastDot(name, Len(name)) IN IF i <= 1 THEN name ELSE Take(name, i - 1)

\* s.replace(p, ""): every occurrence of p removed, left to right.
RECURSIVE RemoveAll(_, _)
RemoveAll(s, p) ==
    LET i == Find(s, p, 1)
    IN IF i = 0 THEN s ELSE Take(s, i - 1) \o RemoveAll(Drop(s, i - 1 + Len(p)), p)

\* Line 385: the timestamp cleanup takes from a model file's name.
TimestampOf(model_file) == RemoveAll(Stem(model_file), P_MODEL)

\* compute_sha256 (lines 47-53) of the features file in its version v.
FeaturesSha(v) == Sha256Hex(<<v>>)

\* A function without the keys in D.
Without(f, D) == [k \in DOMAIN f \ D |-> f[k]]

\* sys.exit(1), or an exception that ends the run.
Exit(st) ==
    /\ rpc' = "idle"
    /\ status' = st

\* main, lines 520-532: the command line, the timestamp and the safety checks
\* (check_safety_requirements, lines 56-118), which read and change nothing;
\* safe says whether the dataset, the labels and the training script pass.
check_safety_requirements ==
    /\ mode = "retrain"
    /\ rpc = "idle"
    /\ clock < MaxRuns
    /\ \E dry_run \in BOOLEAN, n_keep \in 0..MaxKeep, safe \in BOOLEAN :
          /\ args' = [dry_run |-> dry_run, n_keep |-> n_keep]
          /\ IF safe
             THEN rpc' = "regenerate_features" /\ status' = ""
             ELSE Exit("error")
    /\ clock' = clock + 1
    /\ now' = DateTime(clock + 1)
    /\ UNCHANGED <<fs, features_sha256, linkVars>>

\* regenerate_features (lines 121-196) and main, lines 543-547.  The library
\* call and the subprocess write the same file; made says whether the
\* extraction succeeds.
regenerate_features ==
    /\ rpc = "regenerate_features"
    /\ \E made \in BOOLEAN :
          IF args.dry_run
          THEN /\ features_sha256' = DRY_RUN_SHA
               /\ rpc' = "retrain_model"
               /\ UNCHANGED <<fs, status>>
          ELSE IF made
          THEN /\ fs' = [fs EXCEPT !.features = clock,
                                   !.dirs = @ \cup {"features"}]
               /\ features_sha256' = FeaturesSha(clock)
               /\ rpc' = "retrain_model"
               /\ UNCHANGED status
          ELSE /\ Exit("error")
               /\ UNCHANGED <<fs, features_sha256>>
    /\ UNCHANGED <<args, now, clock, linkVars>>

\* retrain_model without the return code test of lines 265-277.
retrain_model_IgnoreReturnCode ==
    /\ rpc = "retrain_model"
    /\ \E trained \in {"ok", "fail", "fail_metrics"} :
          IF args.dry_run
          THEN /\ rpc' = "promote_model"
               /\ UNCHANGED <<fs, status>>
          ELSE LET timestamp == StrftimeFs(now)
                   model == ModelFilename(timestamp)
                   metrics == MetricsFilename(timestamp)
               IN /\ fs' = [fs EXCEPT
                              !.dirs = @ \cup {"model_dir", "metrics_dir"},
                              !.models = IF trained = "fail" THEN @
                                         ELSE (model :> clock) @@ @,
                              !.metrics = IF trained = "ok" THEN @ \cup {metrics} ELSE @,
                              !.logs = @ \cup {LogFilename(timestamp)}]
                  /\ rpc' = "promote_model"
                  /\ UNCHANGED status
    /\ UNCHANGED <<args, now, features_sha256, clock, linkVars>>

\* retrain_model (lines 199-280).  train_rf.py (main, lines 109-118) saves the
\* model, then the metrics image; trained says how far it gets: "ok", "fail"
\* (it raises before the model is saved) or "fail_metrics" (it raises between
\* the two saves).
retrain_model ==
    /\ rpc = "retrain_model"
    /\ \E trained \in {"ok", "fail", "fail_metrics"} :
          IF args.dry_run
          THEN /\ rpc' = "promote_model"
               /\ UNCHANGED <<fs, status>>
          ELSE LET timestamp == StrftimeFs(now)
                   model == ModelFilename(timestamp)
                   metrics == MetricsFilename(timestamp)
               IN /\ fs' = [fs EXCEPT
                              !.dirs = @ \cup {"model_dir", "metrics_dir"},
                              !.models = IF trained = "fail" THEN @
                                         ELSE (model :> clock) @@ @,
                              !.metrics = IF trained = "ok" THEN @ \cup {metrics} ELSE @,
                              !.logs = @ \cup {LogFilename(timestamp)}]
                  /\ IF trained = "ok"
                     THEN rpc' = "promote_model" /\ UNCHANGED status
                     ELSE Exit("error")
    /\ UNCHANGED <<args, now, features_sha256, clock, linkVars>>

\* promote_model (lines 283-308): the alias becomes a copy of the new model.
promote_model ==
    /\ rpc = "promote_model"
    /\ IF args.dry_run
       THEN UNCHANGED fs
       ELSE fs' = [fs EXCEPT !.alias = ModelFilename(StrftimeFs(now)),
                             !.dirs = @ \cup {"alias"}]
    /\ rpc' = "update_manifest"
    /\ UNCHANGED <<args, now, features_sha256, status, clock, linkVars>>

\* Lines 326-332 with the arguments of main (lines 572-581): the manifest row.
ManifestEntry ==
    [timestamp |-> StrftimeIso(now),
     model_filename |-> ModelFilename(StrftimeFs(now)),
     metrics_filename |-> MetricsFilename(StrftimeFs(now)),
     features_sha256 |-> features_sha256,
     notes |-> <<>>]

\* Lines 341-355: the row appended, with the header first in a new file.
Appended(manifest, entry) ==
    IF manifest.ok
    THEN Some([header |-> manifest.v.header, rows |-> Append(manifest.v.rows, entry)])
    ELSE Some([header |-> TRUE, rows |-> <<entry>>])

\* update_manifest without the dry_run test of lines 336-338.
update_manifest_NoDryRun ==
    /\ rpc = "update_manifest"
    /\ fs' = [fs EXCEPT !.manifest = Appended(@, ManifestEntry)]
    /\ rpc' = "cleanup_old_models"
    /\ UNCHANGED <<args, now, features_sha256, status, clock, linkVars>>

\* update_manifest (lines 311-355).
update_manifest ==
    /\ rpc = "update_manifest"
    /\ IF args.dry_run
       THEN UNCHANGED fs
       ELSE fs' = [fs EXCEPT !.manifest = Appended(@, ManifestEntry)]
    /\ rpc' = "cleanup_old_models"
    /\ UNCHANGED <<args, now, features_sha256, status, clock, linkVars>>

\* Lines 372-374: the versioned models, most recently modified first; files
\* with equal modification times come in any order.
ModelFiles(models) ==
    {q \in [1..Cardinality(DOMAIN models) -> DOMAIN models] :
        \A i, j \in DOMAIN q : i < j => q[i] # q[j] /\ models[q[i]] >= models[q[j]]}

\* ToDelete taking the newest models instead (model_files[:n_keep]).
ToDelete_Newest(model_files, n_keep) == Take(model_files, n_keep)

\* Line 381: model_files[n_keep:].
ToDelete(model_files, n_keep) == Drop(model_files, n_keep)

\* csv.DictReader on the manifest (lines 411-413): the first line of the file
\* names the fields.  In a file written without the header line the first row
\* is taken for it and the rows after it have no "timestamp" field.
Entries(manifest) == IF manifest.header THEN manifest.rows ELSE <<>>
KeyError(manifest) == ~manifest.header /\ Len(manifest.rows) >= 2

\* Lines 416-419: the rows kept.
KeptEntries(entries, to_delete) ==
    LET deleted_timestamps == {TimestampOf(to_delete[i]) : i \in DOMAIN to_delete}
        kept(e) == e.timestamp \notin deleted_timestamps
    IN SelectSeq(entries, kept)

\* Lines 422-448: the manifest as rewritten: header and rows, the header alone,
\* or an empty file.
Rewritten(entries, kept_entries) ==
    IF kept_entries # <<>> THEN Some([header |-> TRUE, rows |-> kept_entries])
    ELSE IF entries # <<>> THEN Some([header |-> TRUE, rows |-> <<>>])
    ELSE Some([header |-> FALSE, rows |-> <<>>])

\* Lines 383-404 without dry_run: the files of to_delete removed.
Unlinked(tree, to_delete) ==
    LET D == {to_delete[i] : i \in DOMAIN to_delete}
        T == {TimestampOf(f) : f \in D}
    IN [tree EXCEPT !.models = Without(@, D),
                     !.metrics = @ \ {MetricsFilename(t) : t \in T},
                    !.logs = @ \ {LogFilename(t) : t \in T}]

\* cleanup_old_models (lines 358-450).
cleanup_old_models ==
    /\ rpc = "cleanup_old_models"
    /\ \E model_files \in ModelFiles(fs.models) :
          IF Len(model_files) <= args.n_keep \/ args.dry_run
          THEN /\ rpc' = "print_status"
               /\ UNCHANGED <<fs, status>>
          ELSE \E to_delete \in {ToDelete(model_files, args.n_keep)} :
               \E unlinked \in {Unlinked(fs, to_delete)} :
                  IF ~unlinked.manifest.ok
                  THEN /\ fs' = unlinked
                       /\ rpc' = "print_status"
                       /\ UNCHANGED status
                  ELSE IF KeyError(unlinked.manifest.v)
                  THEN /\ fs' = unlinked
                       /\ Exit("error")
                  ELSE \E entries \in {Entries(unlinked.manifest.v)} :
                          /\ fs' = [unlinked EXCEPT !.manifest =
                                       Rewritten(entries, KeptEntries(entries, to_delete))]
                          /\ rpc' = "print_status"
                          /\ UNCHANGED status
    /\ UNCHANGED <<args, now, features_sha256, clock, linkVars>>

\* main, lines 588-612: the status printed at the end of the run.
print_status ==
    /\ rpc = "print_status"
    /\ status' = IF args.dry_run THEN "dry-run" ELSE "success"
    /\ rpc' = "idle"
    /\ UNCHANGED <<fs, args, now, features_sha256, clock, linkVars>>

\* Runs of retrain.py, one after the other, on a checkout without models.
RetrainInit ==
    /\ HostInit
    /\ script = <<>>
    /\ payload = <<>>
    /\ mode = "retrain"

RetrainNext ==
    \/ check_safety_requirements
    \/ regenerate_features
    \/ retrain_model
    \/ promote_model
    \/ update_manifest
    \/ cleanup_old_models
    \/ print_status

RetrainSpec == RetrainInit /\ [][RetrainNext]_vars

\* ---------------------------------------------------------------- claims

\* A command is written by this step.
Writes == tx' # tx
\* The command this step writes.
Written == tx'[Len(tx')]
\* This step is the return of read_frame from its tail read (line 29).
Returns == pc = "rf_tail" /\ pc' # "rf_tail"
\* The receiver is back at line polling and nothing is left to read or send.
Quiet == script = <<>> /\ rx = <<>> /\ pc = "poll"

\* C1: hash gate.  Whenever a hash announcement is handled with session buffer
\* B and announced value H, the command written is ALLOW if and only if the
\* SHA-256 hex digest of B equals H compared case-insensitively, else CUT.
HashGate ==
    [][Writes =>
         /\ Written \in {CMD_ALLOW, CMD_CUT}
         /\ Written = CMD_ALLOW
              <=> Lower(Sha256Hex(ciphertext)) = Lower(HashField(NextLine))]_vars

\* C2: scenario A.  The device has sent insertion event, chunk-begin, one frame
\* of 16 zero bytes and HASH:<digest of them>, no read has timed out while it
\* was sending, and the receiver has read everything: then the receiver has
\* written ALLOW and capture 1 holds the 16 bytes.
ScenarioA ==
    (mode = "A" /\ Quiet /\ ~earlyTimeout) =>
        /\ tx = <<CMD_ALLOW>>
        /\ 1 \in DOMAIN files
        /\ files[1] = ScenarioPayload

\* C3: every command, ALLOW or CUT, comes with a new capture (the next index,
\* not written before) whose content is the session buffer as it was when the
\* announcement was handled; no earlier capture changes.
CaptureOnEveryVerdict ==
    [][Writes =>
         /\ file_counter' = file_counter + 1
         /\ file_counter' \notin DOMAIN files
         /\ DOMAIN files' = DOMAIN files \cup {file_counter'}
         /\ files'[file_counter'] = ciphertext
         /\ \A k \in DOMAIN files : files'[k] = files[k]]_vars
CaptureOnCutWitness ==
    \E k \in 1..Len(tx) :
        /\ tx[k] = CMD_CUT
        /\ k \in DOMAIN files
        /\ files[k] # <<>>

\* C4: at most one command between two consecutive insertion events.
OneDispatchPerSession == sessCmds <= 1

\* C5: abandonment.  An insertion-event line sent while the receiver is in the
\* streaming loop with bytes accumulated: once the receiver has taken the last
\* byte of that line off the link, the session buffer is empty.
Abandonment == [][(evtLeft > 0 /\ evtLeft' = 0) => ciphertext' = <<>>]_vars

\* C6: session isolation.  After a verdict, and until a frame is appended
\* again, the session buffer is empty; in particular it is empty when the
\* next chunk-begin line is taken.
SessionIsolation == afterVerdict => ciphertext = <<>>
SessionIsolationWitness ==
    /\ afterVerdict
    /\ pc = "poll"
    /\ Branch(NextLine) = "chunk_start"
    /\ 1 \in DOMAIN files
    /\ files[1] # <<>>

\* C7: lifecycle.  A command is written only in STREAMING (after an insertion
\* event, then a chunk-begin line, then the exit of the frame loop), and the
\* frame loop is entered only after an insertion event.
Lifecycle ==
    [][/\ Writes => phase = "STREAMING"
       /\ (pc = "poll" /\ pc' = "rf_marker") => phase # "IDLE"]_vars

\* C8: every payload that read_frame returns and the streaming loop appends
\* to the session buffer has the length declared in the frame's header.
DeclaredLength ==
    [][(Returns /\ ciphertext' # ciphertext) =>
         /\ frame'.ok
         /\ UnpackBE(hdr).hi = 0
         /\ Len(frame'.v) = UnpackBE(hdr).lo]_vars

\* C9: round trip.  read_frame on the bytes of send_frame(payload), none of
\* its reads timing out, returns exactly payload (the empty one included) and
\* takes exactly the 6 + len(payload) bytes of the frame off the link: what
\* is left to read is what the device writes after the frame.
Unread == rx \o Flatten(script)
RoundTrip ==
    [][(Returns /\ ~earlyTimeout') =>
         /\ frame' = Some(payload)
         /\ Unread' = LineBytes(L_CHUNK_END)]_vars
RoundTripWitness ==
    /\ mode = "rt"
    /\ ~earlyTimeout
    /\ payload = <<>>
    /\ frame = Some(<<>>)
    /\ Unread = LineBytes(L_CHUNK_END)

\* C10: end to end, with the simulator's whole transmission on a lossless link
\* and no read of the receiver timing out while the simulator has writes left,
\* the receiver eventually has written exactly one command, ALLOW, with capture
\* 1 equal to the simulator's payload; and it never writes any other command.
EndToEndDone ==
    /\ Quiet
    /\ tx = <<CMD_ALLOW>>
    /\ file_counter = 1
    /\ DOMAIN files = {1}
    /\ files[1] = payload
EndToEnd ==
    /\ <>(earlyTimeout \/ EndToEndDone)
    /\ [](~earlyTimeout =>
            /\ Len(tx) <= 1
            /\ (tx # <<>> => tx = <<CMD_ALLOW>> /\ files[1] = payload))
EndToEndWitness == ~earlyTimeout /\ EndToEndDone

\* C11: the simulator's transmission.  Its writes, read back in the order it
\* made them, are: the insertion-event line, the chunk-begin line, frames
\* (start marker, big-endian length, that many payload bytes, end marker) of
\* at most SimChunk payload bytes each, the chunk-end line, the hash line and
\* the completion marker, with nothing after it; the frame payloads one after
\* the other are the payload, and the announced hash is its SHA-256 hex digest.
RECURSIVE SimParse(_, _, _, _, _)
SimParse(ws, st, n, acc, h) ==
    IF ws = <<>> THEN [ok |-> TRUE, stage |-> st, payloads |-> acc, hash |-> h]
    ELSE LET w == Head(ws)
             rest == Tail(ws)
         IN CASE st = "event" /\ w = LineBytes(L_EVENT) ->
                     SimParse(rest, "chunk_start", 0, acc, h)
              [] st = "chunk_start" /\ w = LineBytes(L_CHUNK_START) ->
                     SimParse(rest, "frames", 0, acc, h)
              [] st = "frames" /\ w = <<START_MARK>> ->
                     SimParse(rest, "length", 0, acc, h)
              [] st = "length" /\ Len(w) = 4 /\ UnpackBE(w).hi = 0 ->
                     SimParse(rest, "data", UnpackBE(w).lo, acc, h)
              [] st = "data" /\ Len(w) = n ->
                     SimParse(rest, "tail", 0, Append(acc, w), h)
              [] st = "tail" /\ w = <<END_MARK>> ->
                     SimParse(rest, "frames", 0, acc, h)
              [] st = "frames" /\ w = LineBytes(L_CHUNK_END) ->
                     SimParse(rest, "hash", 0, acc, h)
              [] st = "hash" /\ StartsWith(w, L_HASH) /\ w[Len(w)] = NL ->
                     SimParse(rest, "status", 0, acc, SubSeq(w, Len(L_HASH) + 1, Len(w) - 1))
              [] st = "status" /\ w = LineBytes(L_STATUS) ->
                     SimParse(rest, "done", 0, acc, h)
              [] OTHER -> [ok |-> FALSE, stage |-> st, payloads |-> acc, hash |-> h]
SimSent == SimParse(sent, "event", 0, <<>>, <<>>)
SimOrder ==
    /\ SimSent.ok
    /\ \A i \in DOMAIN SimSent.payloads : Len(SimSent.payloads[i]) <= SimChunk
    /\ Flatten(SimSent.payloads) = Take(payload, Len(Flatten(SimSent.payloads)))
    /\ script = <<>> =>
          /\ SimSent.stage = "done"
          /\ Flatten(SimSent.payloads) = payload
          /\ SimSent.hash = Sha256Hex(payload)
SimOrderWitness ==
    /\ mode = "sim"
    /\ script = <<>>
    /\ SimSent.stage = "done"
    /\ Len(SimSent.payloads) = SimChunks
    /\ payload[1] = START_MARK

\* C12: capture indices.  Within one run the k-th command written comes with
\* the capture numbered k, counted from 1; the index of a new capture is
\* greater than every earlier one, and no step removes or changes a capture
\* that was written before.
CaptureIndices ==
    [][/\ file_counter' >= file_counter
       /\ DOMAIN files' = 1..Len(tx')
       /\ \A k \in DOMAIN files : k \in DOMAIN files' /\ files'[k] = files[k]
       /\ \A k \in DOMAIN files' \ DOMAIN files :
             /\ k = Len(tx')
             /\ k = file_counter'
             /\ \A j \in DOMAIN files : k > j]_vars
CaptureIndicesWitness ==
    /\ Len(tx) = 2
    /\ file_counter = 2
    /\ DOMAIN files = {1, 2}
    /\ files[1] # files[2]

\* C13: retrain dry-run.  In a run with dry_run set whose safety checks have
\* passed, no step (feature regeneration, training, promotion, manifest
\* update, cleanup, final status) changes a file or a directory, no step ends
\* the run with an error, and the run ends with status "dry-run".
RetrainDryRun ==
    [][(rpc # "idle" /\ args.dry_run) =>
         /\ fs' = fs
         /\ status' # "error"
         /\ rpc' = "idle" => status' = "dry-run"]_vars
RetrainDryRunWitness ==
    /\ rpc = "idle"
    /\ args.dry_run
    /\ status = "dry-run"
    /\ fs.manifest.ok
    /\ Cardinality(DOMAIN fs.models) > args.n_keep

\* C14: manifest cleanup.  When cleanup_old_models, not in a dry run, deletes
\* versioned model files, the manifest it leaves has no row for a deleted
\* model: every row names a model file that still exists.
ManifestRows(tree) == IF tree.manifest.ok THEN tree.manifest.v.rows ELSE <<>>
ManifestCleanup ==
    [][(rpc = "cleanup_old_models" /\ ~args.dry_run /\ fs'.models # fs.models) =>
         \A i \in DOMAIN ManifestRows(fs') :
            ManifestRows(fs')[i].model_filename \in DOMAIN fs'.models]_vars

\* C15: retention.  A cleanup that is not a dry run leaves at most n_keep
\* versioned models: all of them when there were no more than n_keep, else
\* n_keep of them, none older than a deleted one; the metrics image and the
\* log of each deleted model are gone as well, nothing else is removed, and
\* the alias is as it was.
RunTimestamps == {StrftimeFs(DateTime(k)) : k \in 0..clock}
Retention ==
    [][(rpc = "cleanup_old_models" /\ ~args.dry_run /\ rpc' = "print_status") =>
         LET before == DOMAIN fs.models
             after == DOMAIN fs'.models
         IN /\ after \subseteq before
            /\ Cardinality(after) =
                  IF Cardinality(before) <= args.n_keep
                  THEN Cardinality(before) ELSE args.n_keep
            /\ \A k \in after : fs'.models[k] = fs.models[k]
            /\ \A k \in after, d \in before \ after : fs.models[k] >= fs.models[d]
            /\ \A t \in RunTimestamps :
                  IF ModelFilename(t) \in before \ after
                  THEN /\ MetricsFilename(t) \notin fs'.metrics
                       /\ LogFilename(t) \notin fs'.logs
                  ELSE /\ MetricsFilename(t) \in fs'.metrics <=> MetricsFilename(t) \in fs.metrics
                       /\ LogFilename(t) \in fs'.logs <=> LogFilename(t) \in fs.logs
            /\ fs'.alias = fs.alias]_vars
RetentionWitness ==
    /\ rpc = "print_status"
    /\ ~args.dry_run
    /\ args.n_keep = 2
    /\ Cardinality(DOMAIN fs.models) = 2
    /\ Len(ManifestRows(fs)) = 3
    /\ fs.alias \in DOMAIN fs.models

\* The receiver takes a line off the link by this step (line 46).
TakesLine == pc = "poll" /\ Len(rx') < Len(rx)

\* C16: insertion event.  Handling an insertion-event line, in whatever state
\* the receiver is, empties the session buffer and clears the expected hash
\* and does nothing else: no command, no capture, the capture counter as it
\* was, and the receiver goes on reading lines.
InsertionEffect ==
    [][(TakesLine /\ Branch(NextLine) = "usb") =>
         /\ ciphertext' = <<>>
         /\ current_hash_expected' = None
         /\ tx' = tx
         /\ files' = files
         /\ file_counter' = file_counter
         /\ pc' = "poll"]_vars
\* An insertion event has been handled after a verdict and a further burst:
\* the bytes appended since the verdict and the expected hash are gone.
InsertionEffectWitness ==
    /\ pc = "poll"
    /\ sessCmds = 0
    /\ file_counter >= 1
    /\ ~afterVerdict
    /\ ciphertext = <<>>
    /\ current_hash_expected = None

\* The writes of a scripted device, done and still to do, and the frames of a
\* damaged burst among them (between the chunk-begin and the chunk-end line).
AllWrites == sent \o script
BurstSent == SubSeq(AllWrites, 2, Len(AllWrites) - 2)
\* A write that is a whole frame: marker, length of the payload it carries,
\* payload, and the end marker (WellFormed) or another tail byte (WrongTail).
Framed(w) ==
    /\ Len(w) >= 6
    /\ w[1] = START_MARK
    /\ UnpackBE(SubSeq(w, 2, 5)) = [hi |-> 0, lo |-> Len(w) - 6]
WellFormed(w) == Framed(w) /\ w[Len(w)] = END_MARK
WrongTail(w) == Framed(w) /\ w[Len(w)] # END_MARK
\* This step is a step of the receiver, not a write of the scripted device.
ReceiverStep == script' = script

\* C17: tail mismatch.  A frame with a non-empty payload of the declared
\* length and a tail byte that is not 0x55 has its payload appended and the
\* streaming loop reads the next frame; and in a burst of well-formed and
\* wrong-tail frames with non-empty payloads, read without a timeout, the hash
\* of all the payloads is answered with ALLOW and capture 1 holds them all.
TailBurst ==
    /\ mode = "burst"
    /\ \A i \in DOMAIN BurstSent :
          (WellFormed(BurstSent[i]) \/ WrongTail(BurstSent[i])) /\ Len(BurstSent[i]) > 6
    /\ \E i \in DOMAIN BurstSent : WrongTail(BurstSent[i])
TailMismatch ==
    /\ [][(/\ pc = "rf_tail"
           /\ ReceiverStep
           /\ rx # <<>>
           /\ rx[1] # END_MARK
           /\ data # <<>>
           /\ UnpackBE(hdr) = [hi |-> 0, lo |-> Len(data)]) =>
             /\ ciphertext' = ciphertext \o data
             /\ pc' = "rf_marker"]_vars
    /\ []((TailBurst /\ Quiet /\ ~earlyTimeout) =>
             /\ tx = <<CMD_ALLOW>>
             /\ DOMAIN files = {1}
             /\ files[1] = payload)
TailMismatchWitness ==
    /\ TailBurst
    /\ Quiet
    /\ ~earlyTimeout
    /\ Len(sent) = 5
    /\ WrongTail(sent[2])
    /\ WellFormed(sent[3])
    /\ tx = <<CMD_ALLOW>>
    /\ files[1] = payload

\* C18: NoFrame.  When the marker read returns no byte or a byte other than
\* 0xAA, or the length read returns fewer than 4 bytes, read_frame returns
\* None: nothing is appended, no command and no capture is written, the
\* streaming loop ends and the receiver reads control lines again.
NoFrame ==
    [][(/\ ReceiverStep
        /\ \/ pc = "rf_marker" /\ (rx = <<>> \/ rx[1] # START_MARK)
           \/ pc = "rf_hdr" /\ Len(rx) < 4) =>
          /\ frame' = None
          /\ ciphertext' = ciphertext
          /\ tx' = tx
          /\ files' = files
          /\ file_counter' = file_counter
          /\ pc' = "poll"]_vars
\* read_frame has just given up at a short length, after a frame was appended.
NoFrameWitness ==
    /\ mode = "burst"
    /\ noFrame = "length"
    /\ pc = "poll"
    /\ frame = None
    /\ ciphertext # <<>>
    /\ tx = <<>>

\* C19: absent tail.  When the marker, the length and the whole payload of a
\* frame have been read and the tail read times out without a byte, the
\* payload is not appended and the streaming loop ends.
AbsentTail ==
    [][(/\ pc = "rf_tail"
        /\ ReceiverStep
        /\ UnpackBE(hdr) = [hi |-> 0, lo |-> Len(data)]
        /\ rx = <<>>) =>
          /\ ciphertext' = ciphertext
          /\ pc' = "poll"]_vars

\* C19, as the code has it: an absent tail byte is warned about like a wrong
\* one.  When the marker, the length and the whole payload of a frame have
\* been read and the tail read times out without a byte, read_frame returns
\* the payload; a payload that is not empty is appended and the streaming
\* loop reads the next frame.
AbsentTailAccepted ==
    [][(/\ pc = "rf_tail"
        /\ ReceiverStep
        /\ UnpackBE(hdr) = [hi |-> 0, lo |-> Len(data)]
        /\ rx = <<>>) =>
          /\ frame' = Some(data)
          /\ data # <<>> => (ciphertext' = ciphertext \o data /\ pc' = "rf_marker")]_vars
\* The device has sent chunk-begin and a frame without its tail byte, and
\* nothing since; the receiver has appended the payload and is at the next
\* marker read.
AbsentTailWitness ==
    /\ mode = "burst"
    /\ Len(sent) = 2
    /\ sent[2] = <<START_MARK, 0, 0, 0, 1, 1>>
    /\ rx = <<>>
    /\ pc = "rf_marker"
    /\ frame = Some(<<1>>)
    /\ ciphertext = <<1>>

\* C20: the streaming loop.  When read_frame has read a well-formed frame
\* (marker, length, that many payload bytes, end marker), whatever its
\* length, its payload is appended and the loop calls read_frame again: only
\* a call that returns None ends the loop.
StreamingContinues ==
    [][(/\ pc = "rf_tail"
        /\ ReceiverStep
        /\ UnpackBE(hdr) = [hi |-> 0, lo |-> Len(data)]
        /\ rx # <<>>
        /\ rx[1] = END_MARK) =>
          /\ frame' = Some(data)
          /\ ciphertext' = ciphertext \o data
          /\ pc' = "rf_marker"]_vars

\* A scripted device has sent everything, everything was read, and no read
\* timed out before the device was done.
Delivered == Quiet /\ ~earlyTimeout

\* C21: reassembly.  In the streaming loop the buffer changes only when
\* read_frame returns, and then it becomes the buffer as it was followed by
\* the payload returned; and when the frames of a session of two bursts are
\* all read without a timeout, the capture holds their payloads in the order
\* sent, each byte once, and the hash of that sequence is answered with ALLOW.
Reassembly ==
    /\ [][InLoop =>
             IF Returns
             THEN frame' = Some(data) /\ ciphertext' = ciphertext \o data
             ELSE ciphertext' = ciphertext]_vars
    /\ []((mode = "session" /\ Delivered) =>
             /\ tx = <<CMD_ALLOW>>
             /\ DOMAIN files = {1}
             /\ files[1] = payload)
\* Two bursts of two frames each, with payloads 1, 2 3, 2 3, 1, were read
\* without a timeout.
ReassemblyWitness ==
    /\ mode = "session"
    /\ Delivered
    /\ Len(sent) = 10
    /\ payload = <<1, 2, 3, 2, 3, 1>>
    /\ files[1] = <<1, 2, 3, 2, 3, 1>>
    /\ tx = <<CMD_ALLOW>>

\* The payload carried by a write that is a whole frame.
FramePayload(w) == SubSeq(w, 6, Len(w) - 1)
\* The bytes of the first k writes of a scripted device, and the bytes the
\* receiver has taken off the link so far.
Offset(k) == Len(Flatten(SubSeq(AllWrites, 1, k)))
Consumed == Len(Flatten(sent)) - Len(rx)
\* In a session of two bursts: the write that is the second chunk-begin line
\* (the first one is write 2), and the payloads of the first burst.
SecondStart == CHOOSE i \in 3..Len(AllWrites) : AllWrites[i] = LineBytes(L_CHUNK_START)
FirstPayload ==
    Flatten([i \in 1..(SecondStart - 4) |-> FramePayload(AllWrites[i + 2])])

\* C22: NoFrame.  The step that leaves the streaming loop changes neither the
\* buffer nor the expected hash nor the capture counter and writes no command
\* and no capture; taking a chunk-begin line changes none of them either and
\* enters the loop; and in a session of two bursts read without a timeout,
\* once the second chunk-begin line is taken and until the verdict, the buffer
\* begins with the payloads of the first burst.
NotEndOfSession ==
    /\ [][((InLoop /\ pc' = "poll") \/ (TakesLine /\ Branch(NextLine) = "chunk_start")) =>
             /\ ciphertext' = ciphertext
             /\ current_hash_expected' = current_hash_expected
             /\ file_counter' = file_counter
             /\ tx' = tx
             /\ files' = files]_vars
    /\ [][(TakesLine /\ Branch(NextLine) = "chunk_start") => pc' = "rf_marker"]_vars
    /\ []((/\ mode = "session"
           /\ ~earlyTimeout
           /\ tx = <<>>
           /\ Consumed >= Offset(SecondStart)) =>
             StartsWith(ciphertext, FirstPayload))
\* The loop was left after the first burst, at the first byte of the chunk-end
\* line, and the frames of the second burst have been appended to the two
\* payloads of the first.
NotEndOfSessionWitness ==
    /\ mode = "session"
    /\ ~earlyTimeout
    /\ tx = <<>>
    /\ InLoop
    /\ SecondStart = 6
    /\ Consumed >= Offset(SecondStart)
    /\ Len(ciphertext) > Len(FirstPayload)
    /\ ciphertext = payload

\* The lines that the design has logged only or ignored: the relay
\* acknowledgments, the completion marker, the chunk-end line, and every line
\* that is not empty and begins with no prefix of a control line.
Unrecognized(line) ==
    /\ line # <<>>
    /\ \A p \in {L_EVENT, L_HASH, L_RELAY_CUT, L_RELAY_ALLOW, L_STATUS} : ~StartsWith(line, p)
    /\ line \notin {L_CHUNK_START, L_CHUNK_END}
NoTransitionLine(line) ==
    \/ StartsWith(line, L_RELAY_CUT)
    \/ StartsWith(line, L_RELAY_ALLOW)
    \/ StartsWith(line, L_STATUS)
    \/ line = L_CHUNK_END
    \/ Unrecognized(line)
\* This step changes nothing of the session and writes nothing.
LoggedOnly ==
    /\ ciphertext' = ciphertext
    /\ current_hash_expected' = current_hash_expected
    /\ file_counter' = file_counter
    /\ tx' = tx
    /\ files' = files

\* C23: lines without a transition.  Taking a relay acknowledgment, the
\* completion marker, the chunk-end line or an unrecognized line, in whatever
\* state the receiver is, leaves the buffer, the expected hash and the capture
\* counter as they were, writes no command and no capture, and the receiver
\* goes on reading lines.
NoTransition ==
    [][(TakesLine /\ NoTransitionLine(NextLine)) => (LoggedOnly /\ pc' = "poll")]_vars
\* After a burst, a verdict and a second burst, a relay acknowledgment was
\* taken: the byte of the second burst, the expected hash, the command and
\* the capture of the verdict are all as they were.
NoTransitionWitness ==
    /\ mode = "line"
    /\ Quiet
    /\ ~earlyTimeout
    /\ sent[Len(sent)] = LineBytes(L_RELAY_CUT_OK)
    /\ ciphertext = <<1>>
    /\ current_hash_expected = Some(Sha256Hex(<<1>>))
    /\ tx = <<CMD_ALLOW>>
    /\ file_counter = 1

\* C24: error lines.  Taking a line that contains "ERROR", whatever else it
\* contains, leaves the buffer, the expected hash and the capture counter as
\* they were and writes no command and no capture.
ErrorLoggedOnly ==
    [][(TakesLine /\ Contains(NextLine, L_ERROR)) => LoggedOnly]_vars

\* C25: handing back.  When read_frame gives up at its marker read and the
\* streaming loop ends, the link holds the same bytes as before the call:
\* the control line that follows the last frame is there in full for the
\* line reader.
HandBack ==
    [][(pc = "rf_marker" /\ pc' = "poll") => rx' = rx]_vars

\* Effect a comes before effect b among the effects of the line just taken.
Before(a, b) ==
    \E i, j \in DOMAIN effects : i < j /\ effects[i] = a /\ effects[j] = b

Untouched ==
    /\ fs'.alias = fs.alias
    /\ fs'.manifest = fs.manifest
    /\ \A m \in DOMAIN fs.models : m \in DOMAIN fs'.models /\ fs'.models[m] = fs.models[m]

\* C27: failed training.  Up to and including the training step a run leaves
\* the alias, the manifest and the existing versioned models untouched; a run
\* that ends in the training step ends with an error and has written its log;
\* and a run that is not a dry run goes on to promotion only with the model
\* and the metrics image of this run written.
FailedTraining ==
    [][(rpc \in {"idle", "regenerate_features", "retrain_model"}) =>
         /\ Untouched
         /\ (rpc = "retrain_model" /\ rpc' = "idle") =>
                /\ status' = "error"
                /\ LogFilename(StrftimeFs(now)) \in fs'.logs
         /\ (rpc = "retrain_model" /\ rpc' = "promote_model" /\ ~args.dry_run) =>
                /\ ModelFilename(StrftimeFs(now)) \in DOMAIN fs'.models
                /\ MetricsFilename(StrftimeFs(now)) \in fs'.metrics]_vars
\* A run after a successful one has failed in training: its log is there, and
\* the alias is still the model of the earlier run, with its manifest row.
FailedTrainingWitness ==
    /\ mode = "retrain"
    /\ rpc = "idle"
    /\ status = "error"
    /\ LogFilename(StrftimeFs(now)) \in fs.logs
    /\ fs.alias # <<>>
    /\ fs.alias # ModelFilename(StrftimeFs(now))
    /\ fs.alias \in DOMAIN fs.models
    /\ fs.manifest.ok
    /\ Len(ManifestRows(fs)) = 1

====
